---- MODULE Spec2Model ----
(***************************************************************************)
(* Authentication-method validation and content-generator configuration   *)
(* of wingman (packages/cli/src/config/auth.ts and                         *)
(* packages/core/src/core/contentGenerator.ts).                            *)
(*                                                                         *)
(* JavaScript values are tagged tuples, so that undefined, null, booleans  *)
(* and strings stay distinct and comparable.  A string is the sequence of  *)
(* its tokens (variable names, newlines, interpolated values and the text  *)
(* between them), so the empty string is the empty sequence and            *)
(* concatenation is \o.                                                    *)
(***************************************************************************)
EXTENDS Naturals, Sequences, FiniteSets, TLC

VARIABLES
  env,          \* process.env: the three variables the code reads
  envFile,      \* the local .env file that loadEnvironment() reads
  last,         \* the latest call: its arguments, what it did and its result
  checks,       \* the getEffectiveModel promises still pending, with their callbacks
  issued,       \* how many getEffectiveModel calls have been made
  handlerCalls, \* the calls of flashFallbackHandler so far, as <<requested, actual>>
  settled,      \* the getEffectiveModel promise that settled last, and what its callback did
  kept          \* the earlier calls whose results the caller still holds

vars == <<env, envFile, last, checks, issued, handlerCalls, settled, kept>>

------------------------------------------------------------------------------
(* JavaScript values and operators *)

Undefined == <<"undefined">>

Null == <<"null">>

Bool(b) == <<"boolean", b>>

Str(tokens) == <<"string", tokens>>

Lit(token) == Str(<<token>>)

EmptyString == Str(<<>>)

IsString(v) == v[1] = "string"

\* a + b on two strings
Concat(a, b) == Str(a[2] \o b[2])

\* String(v), as a template literal `${v}` converts v
ToJSString(v) ==
  IF IsString(v) THEN v
  ELSE IF v = Undefined THEN Lit("undefined")
  ELSE IF v = Null THEN Lit("null")
  ELSE IF v = Bool(TRUE) THEN Lit("true")
  ELSE Lit("false")

\* ToBoolean(v): undefined, null, false and '' are falsy
Truthy(v) == v # Undefined /\ v # Null /\ v # Bool(FALSE) /\ v # EmptyString

\* a || b
Or(a, b) == IF Truthy(a) THEN a ELSE b

\* a && b
And(a, b) == IF Truthy(a) THEN b ELSE a

\* obj.key: a property the object does not have reads as undefined
Get(obj, key) == IF key \in DOMAIN obj THEN obj[key] ELSE Undefined

\* obj.key = value
Assign(obj, key, value) ==
  [k \in DOMAIN obj \cup {key} |-> IF k = key THEN value ELSE obj[k]]

\* s.includes(token), for a token of the tokenisation
Includes(s, token) == \E i \in DOMAIN s[2] : s[2][i] = token

------------------------------------------------------------------------------
(* AuthType and the process environment *)

AuthType ==
  [LOGIN_WITH_DEDALUS |-> Lit("oauth-personal"),
   USE_DEDALUS        |-> Lit("dedalus-api-key"),
   USE_DEDALUS_CLOUD  |-> Lit("dedalus-cloud"),
   CLOUD_SHELL        |-> Lit("cloud-shell")]

AuthTypeValues == {AuthType[k] : k \in DOMAIN AuthType}

DEFAULT_DEDALUS_MODEL == Lit("dedalus-2.5-pro")

EnvVars == {"DEDALUS_API_KEY", "DEDALUS_CLOUD_PROJECT", "DEDALUS_CLOUD_LOCATION"}

\* The values a variable of the environment takes in the model: unset, empty,
\* or set (two different keys, so that a result can depend on the key's value).
EnvValues(var) ==
  IF var = "DEDALUS_API_KEY" THEN {Undefined, EmptyString, Lit("key-A"), Lit("key-B")}
  ELSE IF var = "DEDALUS_CLOUD_PROJECT" THEN {Undefined, EmptyString, Lit("proj-1")}
  ELSE {Undefined, EmptyString, Lit("us-east1")}

Envs == {e \in [EnvVars -> UNION {EnvValues(v) : v \in EnvVars}] :
           \A v \in EnvVars : e[v] \in EnvValues(v)}

\* A local .env file: each variable absent from the file or given a value.
EnvFileValues(var) ==
  IF var = "DEDALUS_API_KEY" THEN {Undefined, Lit("key-A")}
  ELSE IF var = "DEDALUS_CLOUD_PROJECT" THEN {Undefined, Lit("proj-1")}
  ELSE {Undefined, Lit("us-east1")}

EnvFiles == {f \in [EnvVars -> UNION {EnvFileValues(v) : v \in EnvVars}] :
               \A v \in EnvVars : f[v] \in EnvFileValues(v)}

\* loadEnvironment(): the variables of the .env file that the process
\* environment does not already hold are added to it.
loadEnvironment(processEnv, file) ==
  [v \in EnvVars |-> IF processEnv[v] = Undefined THEN file[v] ELSE processEnv[v]]

------------------------------------------------------------------------------
(* validateAuthMethod *)

ApiKeyNotFound ==
  Str(<<"DEDALUS_API_KEY",
        " environment variable not found. Add that to your environment and try again (no reload needed if using .env)!">>)

\* "\\u2022 " stands for the bullet character and the space after it.
CloudConfigMissing ==
  Concat(Str(<<"When using Dedalus Cloud, you must specify either:", "\n">>),
  Concat(Str(<<"\\u2022 ", "DEDALUS_CLOUD_PROJECT", " and ", "DEDALUS_CLOUD_LOCATION",
               " environment variables.", "\n">>),
  Concat(Str(<<"\\u2022 ", "DEDALUS_API_KEY", " environment variable (if using express mode).", "\n">>),
         Lit("Update your environment and try again (no reload needed if using .env)!"))))

InvalidAuthMethod == Lit("Invalid auth method selected.")

\* validateAuthMethod with the API key tested against undefined only
validateAuthMethod_KeyNotUndefined(authMethod, processEnv) ==
  IF \/ authMethod = Get(AuthType, "LOGIN_WITH_GOOGLE")
     \/ authMethod = Get(AuthType, "CLOUD_SHELL")
  THEN Null
  ELSE IF authMethod = Get(AuthType, "USE_DEDALUS")
  THEN IF processEnv["DEDALUS_API_KEY"] = Undefined THEN ApiKeyNotFound ELSE Null
  ELSE IF authMethod = Get(AuthType, "USE_DEDALUS_CLOUD")
  THEN IF /\ ~(/\ Truthy(processEnv["DEDALUS_CLOUD_PROJECT"])
               /\ Truthy(processEnv["DEDALUS_CLOUD_LOCATION"]))
          /\ ~Truthy(processEnv["DEDALUS_API_KEY"])
       THEN CloudConfigMissing
       ELSE Null
  ELSE InvalidAuthMethod

\* validateAuthMethod accepting a project without a location, or the reverse
validateAuthMethod_ProjectOrLocation(authMethod, processEnv) ==
  IF \/ authMethod = Get(AuthType, "LOGIN_WITH_GOOGLE")
     \/ authMethod = Get(AuthType, "CLOUD_SHELL")
  THEN Null
  ELSE IF authMethod = Get(AuthType, "USE_DEDALUS")
  THEN IF ~Truthy(processEnv["DEDALUS_API_KEY"]) THEN ApiKeyNotFound ELSE Null
  ELSE IF authMethod = Get(AuthType, "USE_DEDALUS_CLOUD")
  THEN IF /\ ~(\/ Truthy(processEnv["DEDALUS_CLOUD_PROJECT"])
               \/ Truthy(processEnv["DEDALUS_CLOUD_LOCATION"]))
          /\ ~Truthy(processEnv["DEDALUS_API_KEY"])
       THEN CloudConfigMissing
       ELSE Null
  ELSE InvalidAuthMethod

\* validateAuthMethod without its final return: an unknown method passes
validateAuthMethod_NoDefaultError(authMethod, processEnv) ==
  IF \/ authMethod = Get(AuthType, "LOGIN_WITH_GOOGLE")
     \/ authMethod = Get(AuthType, "CLOUD_SHELL")
  THEN Null
  ELSE IF authMethod = Get(AuthType, "USE_DEDALUS")
  THEN IF ~Truthy(processEnv["DEDALUS_API_KEY"]) THEN ApiKeyNotFound ELSE Null
  ELSE IF authMethod = Get(AuthType, "USE_DEDALUS_CLOUD")
  THEN IF /\ ~(/\ Truthy(processEnv["DEDALUS_CLOUD_PROJECT"])
               /\ Truthy(processEnv["DEDALUS_CLOUD_LOCATION"]))
          /\ ~Truthy(processEnv["DEDALUS_API_KEY"])
       THEN CloudConfigMissing
       ELSE Null
  ELSE Null

\* validateAuthMethod throwing its last error instead of returning it; a
\* thrown value is <<"throw", error>>
validateAuthMethod_ThrowsInvalid(authMethod, processEnv) ==
  IF \/ authMethod = Get(AuthType, "LOGIN_WITH_GOOGLE")
     \/ authMethod = Get(AuthType, "CLOUD_SHELL")
  THEN Null
  ELSE IF authMethod = Get(AuthType, "USE_DEDALUS")
  THEN IF ~Truthy(processEnv["DEDALUS_API_KEY"]) THEN ApiKeyNotFound ELSE Null
  ELSE IF authMethod = Get(AuthType, "USE_DEDALUS_CLOUD")
  THEN IF /\ ~(/\ Truthy(processEnv["DEDALUS_CLOUD_PROJECT"])
               /\ Truthy(processEnv["DEDALUS_CLOUD_LOCATION"]))
          /\ ~Truthy(processEnv["DEDALUS_API_KEY"])
       THEN CloudConfigMissing
       ELSE Null
  ELSE <<"throw", InvalidAuthMethod>>

\* validateAuthMethod appending the API key it found to its last error
validateAuthMethod_EchoesKey(authMethod, processEnv) ==
  IF \/ authMethod = Get(AuthType, "LOGIN_WITH_GOOGLE")
     \/ authMethod = Get(AuthType, "CLOUD_SHELL")
  THEN Null
  ELSE IF authMethod = Get(AuthType, "USE_DEDALUS")
  THEN IF ~Truthy(processEnv["DEDALUS_API_KEY"]) THEN ApiKeyNotFound ELSE Null
  ELSE IF authMethod = Get(AuthType, "USE_DEDALUS_CLOUD")
  THEN IF /\ ~(/\ Truthy(processEnv["DEDALUS_CLOUD_PROJECT"])
               /\ Truthy(processEnv["DEDALUS_CLOUD_LOCATION"]))
          /\ ~Truthy(processEnv["DEDALUS_API_KEY"])
       THEN CloudConfigMissing
       ELSE Null
  ELSE Concat(InvalidAuthMethod, ToJSString(processEnv["DEDALUS_API_KEY"]))

\* The body of validateAuthMethod after loadEnvironment(), reading processEnv.
\* AuthType has no member LOGIN_WITH_GOOGLE: the access reads as undefined.
validateAuthMethod(authMethod, processEnv) ==
  IF \/ authMethod = Get(AuthType, "LOGIN_WITH_GOOGLE")
     \/ authMethod = Get(AuthType, "CLOUD_SHELL")
  THEN Null
  ELSE IF authMethod = Get(AuthType, "USE_DEDALUS")
  THEN IF ~Truthy(processEnv["DEDALUS_API_KEY"]) THEN ApiKeyNotFound ELSE Null
  ELSE IF authMethod = Get(AuthType, "USE_DEDALUS_CLOUD")
  THEN LET hasVertexProjectLocationConfig ==
             /\ Truthy(processEnv["DEDALUS_CLOUD_PROJECT"])
             /\ Truthy(processEnv["DEDALUS_CLOUD_LOCATION"])
           hasDedalusApiKey == Truthy(processEnv["DEDALUS_API_KEY"])
       IN  IF ~hasVertexProjectLocationConfig /\ ~hasDedalusApiKey
           THEN CloudConfigMissing
           ELSE Null
  ELSE InvalidAuthMethod

\* The strings a caller passes as authMethod: the four modes and strings that
\* are none of them.
AuthMethodInputs ==
  AuthTypeValues \cup {EmptyString, Lit("gemini-api-key"), Lit("LOGIN_WITH_DEDALUS")}

NoCall == [op |-> "none"]

NoSettlement == [state |-> "none"]

\* validateAuthMethod reading the variables before loadEnvironment() has run
ValidateAuthMethodCall_ReadBeforeLoad(authMethod) ==
  /\ env' = loadEnvironment(env, envFile)
  /\ last' = [op |-> "validateAuthMethod",
              authMethod |-> authMethod,
              env |-> env,
              result |-> validateAuthMethod(authMethod, env)]
  /\ UNCHANGED <<envFile, checks, issued, handlerCalls, settled>>

\* One call: loadEnvironment() first, then the checks on the loaded
\* environment; last.env is the environment as the checks read it.
ValidateAuthMethodCall(authMethod) ==
  /\ env' = loadEnvironment(env, envFile)
  /\ last' = [op |-> "validateAuthMethod",
              authMethod |-> authMethod,
              env |-> env',
              result |-> validateAuthMethod(authMethod, env')]
  /\ UNCHANGED <<envFile, checks, issued, handlerCalls, settled>>

ValidateAuthMethod ==
  \E authMethod \in AuthMethodInputs :
    /\ ValidateAuthMethodCall(authMethod)
    /\ kept' = <<>>

------------------------------------------------------------------------------
(* createContentGeneratorConfig *)

\* The models a Config reports through getModel(): none, empty, or a name.
ModelInputs == {Undefined, EmptyString, Lit("dedalus-2.5-flash")}

\* Config: the model behind getModel() and the optional flashFallbackHandler.
\* Each requested model, the default included, comes with and without a handler.
Configs ==
  {c \in [model : ModelInputs, flashFallbackHandler : {Undefined, Lit("handler")}] :
     c.model = Undefined => c.flashFallbackHandler # Undefined}

getModel(config) == config.model

\* authType: AuthType | undefined, and a string cast into the enum type.
AuthTypeInputs == AuthTypeValues \cup {Undefined, Lit("gemini-api-key")}

\* effectiveModel with ?? in place of ||: only a missing model gets the default
effectiveModel_NullishOnly(config) ==
  IF getModel(config) = Undefined \/ getModel(config) = Null
  THEN DEFAULT_DEDALUS_MODEL
  ELSE getModel(config)

\* const effectiveModel = config.getModel() || DEFAULT_DEDALUS_MODEL
effectiveModel(config) == Or(getModel(config), DEFAULT_DEDALUS_MODEL)

\* createContentGeneratorConfig putting the API key into the descriptor before
\* it looks at the mode
createContentGeneratorConfig_KeyInDescriptor(config, authType, processEnv) ==
  LET dedalusApiKey == Or(processEnv["DEDALUS_API_KEY"], Undefined)
      dedalusCloudProject == Or(processEnv["DEDALUS_CLOUD_PROJECT"], Undefined)
      dedalusCloudLocation == Or(processEnv["DEDALUS_CLOUD_LOCATION"], Undefined)
      contentGeneratorConfig ==
        [model |-> effectiveModel(config), authType |-> authType, apiKey |-> dedalusApiKey]
  IN  IF \/ authType = Get(AuthType, "LOGIN_WITH_DEDALUS")
         \/ authType = Get(AuthType, "CLOUD_SHELL")
      THEN [returned |-> contentGeneratorConfig, getEffectiveModel |-> <<>>]
      ELSE IF authType = Get(AuthType, "USE_DEDALUS") /\ Truthy(dedalusApiKey)
      THEN LET withKey == Assign(contentGeneratorConfig, "vertexai", Bool(FALSE))
           IN  [returned |-> withKey,
                getEffectiveModel |-> <<[apiKey |-> withKey.apiKey, model |-> withKey.model]>>]
      ELSE IF /\ authType = Get(AuthType, "USE_DEDALUS_CLOUD")
              /\ Truthy(Or(dedalusApiKey, And(dedalusCloudProject, dedalusCloudLocation)))
      THEN [returned |-> Assign(contentGeneratorConfig, "vertexai", Bool(TRUE)),
            getEffectiveModel |-> <<>>]
      ELSE [returned |-> contentGeneratorConfig, getEffectiveModel |-> <<>>]

\* createContentGeneratorConfig taking the cloud branch whenever a key is set:
\* the use-api-key branch never runs
createContentGeneratorConfig_CloudBranchFirst(config, authType, processEnv) ==
  LET dedalusApiKey == Or(processEnv["DEDALUS_API_KEY"], Undefined)
      dedalusApiKey2 == Or(processEnv["DEDALUS_API_KEY"], Undefined)
      dedalusCloudProject == Or(processEnv["DEDALUS_CLOUD_PROJECT"], Undefined)
      dedalusCloudLocation == Or(processEnv["DEDALUS_CLOUD_LOCATION"], Undefined)
      contentGeneratorConfig == [model |-> effectiveModel(config), authType |-> authType]
  IN  IF \/ authType = Get(AuthType, "LOGIN_WITH_DEDALUS")
         \/ authType = Get(AuthType, "CLOUD_SHELL")
      THEN [returned |-> contentGeneratorConfig, getEffectiveModel |-> <<>>]
      ELSE IF /\ \/ authType = Get(AuthType, "USE_DEDALUS_CLOUD")
                 \/ authType = Get(AuthType, "USE_DEDALUS")
              /\ Truthy(Or(dedalusApiKey2, And(dedalusCloudProject, dedalusCloudLocation)))
      THEN [returned |-> Assign(Assign(contentGeneratorConfig, "apiKey", dedalusApiKey2),
                                "vertexai", Bool(TRUE)),
            getEffectiveModel |-> <<>>]
      ELSE IF authType = Get(AuthType, "USE_DEDALUS") /\ Truthy(dedalusApiKey)
      THEN LET withKey == Assign(Assign(contentGeneratorConfig, "apiKey", dedalusApiKey),
                                 "vertexai", Bool(FALSE))
           IN  [returned |-> withKey,
                getEffectiveModel |-> <<[apiKey |-> withKey.apiKey, model |-> withKey.model]>>]
      ELSE [returned |-> contentGeneratorConfig, getEffectiveModel |-> <<>>]

\* createContentGeneratorConfig whose cloud branch asks for the API key only
createContentGeneratorConfig_CloudNeedsKey(config, authType, processEnv) ==
  LET dedalusApiKey == Or(processEnv["DEDALUS_API_KEY"], Undefined)
      dedalusApiKey2 == Or(processEnv["DEDALUS_API_KEY"], Undefined)
      dedalusCloudProject == Or(processEnv["DEDALUS_CLOUD_PROJECT"], Undefined)
      dedalusCloudLocation == Or(processEnv["DEDALUS_CLOUD_LOCATION"], Undefined)
      contentGeneratorConfig == [model |-> effectiveModel(config), authType |-> authType]
  IN  IF \/ authType = Get(AuthType, "LOGIN_WITH_DEDALUS")
         \/ authType = Get(AuthType, "CLOUD_SHELL")
      THEN [returned |-> contentGeneratorConfig, getEffectiveModel |-> <<>>]
      ELSE IF authType = Get(AuthType, "USE_DEDALUS") /\ Truthy(dedalusApiKey)
      THEN LET withKey == Assign(Assign(contentGeneratorConfig, "apiKey", dedalusApiKey),
                                 "vertexai", Bool(FALSE))
           IN  [returned |-> withKey,
                getEffectiveModel |-> <<[apiKey |-> withKey.apiKey, model |-> withKey.model]>>]
      ELSE IF /\ authType = Get(AuthType, "USE_DEDALUS_CLOUD")
              /\ Truthy(dedalusApiKey2)
      THEN [returned |-> Assign(Assign(contentGeneratorConfig, "apiKey", dedalusApiKey2),
                                "vertexai", Bool(TRUE)),
            getEffectiveModel |-> <<>>]
      ELSE [returned |-> contentGeneratorConfig, getEffectiveModel |-> <<>>]

\* createContentGeneratorConfig whose cloud branch does not look at the environment
createContentGeneratorConfig_CloudUnconditional(config, authType, processEnv) ==
  LET dedalusApiKey == Or(processEnv["DEDALUS_API_KEY"], Undefined)
      dedalusApiKey2 == Or(processEnv["DEDALUS_API_KEY"], Undefined)
      dedalusCloudProject == Or(processEnv["DEDALUS_CLOUD_PROJECT"], Undefined)
      dedalusCloudLocation == Or(processEnv["DEDALUS_CLOUD_LOCATION"], Undefined)
      contentGeneratorConfig == [model |-> effectiveModel(config), authType |-> authType]
  IN  IF \/ authType = Get(AuthType, "LOGIN_WITH_DEDALUS")
         \/ authType = Get(AuthType, "CLOUD_SHELL")
      THEN [returned |-> contentGeneratorConfig, getEffectiveModel |-> <<>>]
      ELSE IF authType = Get(AuthType, "USE_DEDALUS") /\ Truthy(dedalusApiKey)
      THEN LET withKey == Assign(Assign(contentGeneratorConfig, "apiKey", dedalusApiKey),
                                 "vertexai", Bool(FALSE))
           IN  [returned |-> withKey,
                getEffectiveModel |-> <<[apiKey |-> withKey.apiKey, model |-> withKey.model]>>]
      ELSE IF /\ authType = Get(AuthType, "USE_DEDALUS_CLOUD")
              /\ TRUE
      THEN [returned |-> Assign(Assign(contentGeneratorConfig, "apiKey", dedalusApiKey2),
                                "vertexai", Bool(TRUE)),
            getEffectiveModel |-> <<>>]
      ELSE [returned |-> contentGeneratorConfig, getEffectiveModel |-> <<>>]

\* createContentGeneratorConfig whose cloud branch checks the effective model too
createContentGeneratorConfig_CloudChecksModel(config, authType, processEnv) ==
  LET dedalusApiKey == Or(processEnv["DEDALUS_API_KEY"], Undefined)
      dedalusApiKey2 == Or(processEnv["DEDALUS_API_KEY"], Undefined)
      dedalusCloudProject == Or(processEnv["DEDALUS_CLOUD_PROJECT"], Undefined)
      dedalusCloudLocation == Or(processEnv["DEDALUS_CLOUD_LOCATION"], Undefined)
      contentGeneratorConfig == [model |-> effectiveModel(config), authType |-> authType]
  IN  IF \/ authType = Get(AuthType, "LOGIN_WITH_DEDALUS")
         \/ authType = Get(AuthType, "CLOUD_SHELL")
      THEN [returned |-> contentGeneratorConfig, getEffectiveModel |-> <<>>]
      ELSE IF authType = Get(AuthType, "USE_DEDALUS") /\ Truthy(dedalusApiKey)
      THEN LET withKey == Assign(Assign(contentGeneratorConfig, "apiKey", dedalusApiKey),
                                 "vertexai", Bool(FALSE))
           IN  [returned |-> withKey,
                getEffectiveModel |-> <<[apiKey |-> withKey.apiKey, model |-> withKey.model]>>]
      ELSE IF /\ authType = Get(AuthType, "USE_DEDALUS_CLOUD")
              /\ Truthy(Or(dedalusApiKey2, And(dedalusCloudProject, dedalusCloudLocation)))
      THEN LET withKey == Assign(Assign(contentGeneratorConfig, "apiKey", dedalusApiKey2),
                                 "vertexai", Bool(TRUE))
           IN  [returned |-> withKey,
                getEffectiveModel |-> <<[apiKey |-> withKey.apiKey, model |-> withKey.model]>>]
      ELSE [returned |-> contentGeneratorConfig, getEffectiveModel |-> <<>>]

\* What one call of createContentGeneratorConfig does: the object it returns
\* and the getEffectiveModel calls it makes, each with its two arguments.
createContentGeneratorConfig(config, authType, processEnv) ==
  LET dedalusApiKey == Or(processEnv["DEDALUS_API_KEY"], Undefined)
      dedalusApiKey2 == Or(processEnv["DEDALUS_API_KEY"], Undefined)
      dedalusCloudProject == Or(processEnv["DEDALUS_CLOUD_PROJECT"], Undefined)
      dedalusCloudLocation == Or(processEnv["DEDALUS_CLOUD_LOCATION"], Undefined)
      contentGeneratorConfig == [model |-> effectiveModel(config), authType |-> authType]
  IN  IF \/ authType = Get(AuthType, "LOGIN_WITH_DEDALUS")
         \/ authType = Get(AuthType, "CLOUD_SHELL")
      THEN [returned |-> contentGeneratorConfig, getEffectiveModel |-> <<>>]
      ELSE IF authType = Get(AuthType, "USE_DEDALUS") /\ Truthy(dedalusApiKey)
      THEN LET withKey == Assign(Assign(contentGeneratorConfig, "apiKey", dedalusApiKey),
                                 "vertexai", Bool(FALSE))
           IN  [returned |-> withKey,
                getEffectiveModel |-> <<[apiKey |-> withKey.apiKey, model |-> withKey.model]>>]
      ELSE IF /\ authType = Get(AuthType, "USE_DEDALUS_CLOUD")
              /\ Truthy(Or(dedalusApiKey2, And(dedalusCloudProject, dedalusCloudLocation)))
      THEN [returned |-> Assign(Assign(contentGeneratorConfig, "apiKey", dedalusApiKey2),
                                "vertexai", Bool(TRUE)),
            getEffectiveModel |-> <<>>]
      ELSE [returned |-> contentGeneratorConfig, getEffectiveModel |-> <<>>]

\* The effective-model checks issued in one behaviour
MaxChecks == 1

\* The effective-model checks issued in one behaviour with overlapping calls
MaxChecksConcurrent == 2

\* The effective-model checks issued in one behaviour that repeats a call
MaxChecksRepeated == 2

\* The models the provider reports as the effective one
ProviderModels == {Lit("dedalus-2.5-pro"), Lit("dedalus-2.5-flash")}

\* The then() callback run with newModel, without the comparison: the handler
\* is told of every resolution
onEffectiveModel_AlwaysNotifies(contentGeneratorConfig, config, newModel) ==
  [contentGeneratorConfig |-> contentGeneratorConfig,
   flashFallbackHandler |->
     IF config.flashFallbackHandler # Undefined
     THEN << <<contentGeneratorConfig.model, newModel>> >>
     ELSE <<>>,
   thrown |-> Undefined]

\* The then() callback run with newModel, writing the model into the config
onEffectiveModel_UpdatesConfig(contentGeneratorConfig, config, newModel) ==
  [contentGeneratorConfig |-> Assign(contentGeneratorConfig, "model", newModel),
   flashFallbackHandler |->
     IF /\ newModel # contentGeneratorConfig.model
        /\ config.flashFallbackHandler # Undefined
     THEN << <<contentGeneratorConfig.model, newModel>> >>
     ELSE <<>>,
   thrown |-> Undefined]

\* The then() callback run with newModel, calling the handler without ?.:
\* calling undefined throws a TypeError
onEffectiveModel_PlainCall(contentGeneratorConfig, config, newModel) ==
  [contentGeneratorConfig |-> contentGeneratorConfig,
   flashFallbackHandler |->
     IF /\ newModel # contentGeneratorConfig.model
        /\ config.flashFallbackHandler # Undefined
     THEN << <<contentGeneratorConfig.model, newModel>> >>
     ELSE <<>>,
   thrown |->
     IF /\ newModel # contentGeneratorConfig.model
        /\ config.flashFallbackHandler = Undefined
     THEN Lit("TypeError: config.flashFallbackHandler is not a function")
     ELSE Undefined]

\* The then() callback run with newModel: the calls of config.flashFallbackHandler
\* it makes, each with its two arguments, the returned object as it leaves it,
\* and what it throws (config.flashFallbackHandler?.() is no call when there is
\* no handler).
onEffectiveModel(contentGeneratorConfig, config, newModel) ==
  [contentGeneratorConfig |-> contentGeneratorConfig,
   flashFallbackHandler |->
     IF /\ newModel # contentGeneratorConfig.model
        /\ config.flashFallbackHandler # Undefined
     THEN << <<contentGeneratorConfig.model, newModel>> >>
     ELSE <<>>,
   thrown |-> Undefined]

\* The getEffectiveModel promises a call creates, numbered in order of creation;
\* each holds the callback given to then(), which closes over the returned
\* object and the Config.
NewChecks(call, config) ==
  [i \in DOMAIN call.getEffectiveModel |->
     [id |-> issued + i,
      apiKey |-> call.getEffectiveModel[i].apiKey,
      model |-> call.getEffectiveModel[i].model,
      contentGeneratorConfig |-> call.returned,
      config |-> config]]

\* The record of a createContentGeneratorConfig call
ConfigCall(call, config, authType) ==
  [op |-> "createContentGeneratorConfig",
   config |-> config,
   authType |-> authType,
   env |-> env,
   result |-> call.returned,
   getEffectiveModel |-> call.getEffectiveModel,
   checkIds |-> {issued + i : i \in DOMAIN call.getEffectiveModel}]

\* createContentGeneratorConfig awaiting getEffectiveModel: the promise settles
\* and its callback runs before the config is returned
CreateContentGeneratorConfigCall_Awaited(config, authType) ==
  LET call == createContentGeneratorConfig(config, authType, env)
  IN  /\ last' = ConfigCall(call, config, authType)
      /\ \E newModel \in ProviderModels :
           LET ran == onEffectiveModel(call.returned, config, newModel)
           IN  IF call.getEffectiveModel = <<>>
               THEN UNCHANGED <<settled, handlerCalls>>
               ELSE /\ settled' = [id |-> issued + 1,
                                   requested |-> call.getEffectiveModel[1].model,
                                   config |-> config, state |-> "fulfilled",
                                   value |-> newModel,
                                   flashFallbackHandler |-> ran.flashFallbackHandler,
                                   thrown |-> ran.thrown]
                    /\ handlerCalls' = handlerCalls \o ran.flashFallbackHandler
      /\ issued' = issued + Len(call.getEffectiveModel)
      /\ UNCHANGED <<env, envFile, checks>>

\* One call: it returns its config, and each getEffectiveModel promise it
\* created is left pending; nothing waits for it.
CreateContentGeneratorConfigCall(config, authType) ==
  LET call == createContentGeneratorConfig(config, authType, env)
  IN  /\ last' = ConfigCall(call, config, authType)
      /\ checks' = checks \o NewChecks(call, config)
      /\ issued' = issued + Len(call.getEffectiveModel)
      /\ UNCHANGED <<env, envFile, handlerCalls, settled>>

\* The number of checks a call with these arguments would issue now
ChecksOf(config, authType) ==
  Len(createContentGeneratorConfig(config, authType, env).getEffectiveModel)

CreateContentGeneratorConfig ==
  \E config \in Configs, authType \in AuthTypeInputs :
    /\ issued + ChecksOf(config, authType) <= MaxChecks
    /\ CreateContentGeneratorConfigCall(config, authType)
    /\ kept' = <<>>

\* The caller calls again with the arguments of the call that just returned,
\* keeping the first result.
RepeatCreateContentGeneratorConfig ==
  /\ last.op = "createContentGeneratorConfig"
  /\ kept = <<>>
  /\ issued + ChecksOf(last.config, last.authType) <= MaxChecksRepeated
  /\ CreateContentGeneratorConfigCall(last.config, last.authType)
  /\ kept' = <<last>>

\* The Configs that have a flashFallbackHandler
HandlerConfigs == {c \in Configs : c.flashFallbackHandler # Undefined}

\* A further call in the use-api-key mode while the caller holds the result of
\* the call before it; the checks of earlier calls may still be pending.
NextCreateContentGeneratorConfig ==
  /\ \E config \in HandlerConfigs :
       /\ issued + ChecksOf(config, Get(AuthType, "USE_DEDALUS")) <= MaxChecksConcurrent
       /\ CreateContentGeneratorConfigCall(config, Get(AuthType, "USE_DEDALUS"))
  /\ kept' = IF last.op = "createContentGeneratorConfig" THEN <<last>> ELSE <<>>

\* The process changes DEDALUS_API_KEY in its environment between calls.
SetEnvironment ==
  /\ \E value \in {Lit("key-A"), Lit("key-B")} :
       /\ value # env["DEDALUS_API_KEY"]
       /\ env' = [env EXCEPT !["DEDALUS_API_KEY"] = value]
  /\ UNCHANGED <<envFile, last, checks, issued, handlerCalls, settled, kept>>

\* The caller assigns another model to the model property of the object the
\* latest call returned.  The then() callback of that call holds the same
\* object, so it reads the new value.
CallerSetsModel ==
  /\ last.op = "createContentGeneratorConfig"
  /\ \E model \in ProviderModels :
       /\ model # last.result.model
       /\ last' = [last EXCEPT !.result = Assign(last.result, "model", model)]
       /\ checks' = [i \in DOMAIN checks |->
                       IF checks[i].id \in last.checkIds
                       THEN [checks[i] EXCEPT !.contentGeneratorConfig =
                                                Assign(@, "model", model)]
                       ELSE checks[i]]
  /\ UNCHANGED <<env, envFile, issued, handlerCalls, settled, kept>>

Remove(seq, i) == [j \in 1..(Len(seq) - 1) |-> IF j < i THEN seq[j] ELSE seq[j + 1]]

\* A call record after the callback of promise id has left the object it
\* returned as contentGeneratorConfig
AfterCallback(record, id, contentGeneratorConfig) ==
  IF record.op = "createContentGeneratorConfig" /\ id \in record.checkIds
  THEN [record EXCEPT !.result = contentGeneratorConfig]
  ELSE record

\* The then() callback reading the object the latest call returned instead of
\* the one its own call returned
ResolveEffectiveModel_LatestConfig ==
  \E i \in DOMAIN checks, newModel \in ProviderModels :
    LET check == checks[i]
        ran == onEffectiveModel(IF last.op = "createContentGeneratorConfig"
                                THEN last.result ELSE check.contentGeneratorConfig,
                                check.config, newModel)
    IN  /\ handlerCalls' = handlerCalls \o ran.flashFallbackHandler
        /\ checks' = Remove(checks, i)
        /\ settled' = [id |-> check.id, requested |-> check.model, config |-> check.config,
                       state |-> "fulfilled", value |-> newModel,
                       flashFallbackHandler |-> ran.flashFallbackHandler,
                       thrown |-> ran.thrown]
        /\ UNCHANGED <<env, envFile, issued, last, kept>>

\* A getEffectiveModel promise resolves with newModel: the then() callback runs.
ResolveEffectiveModel ==
  \E i \in DOMAIN checks, newModel \in ProviderModels :
    LET check == checks[i]
        ran == onEffectiveModel(check.contentGeneratorConfig, check.config, newModel)
    IN  /\ handlerCalls' = handlerCalls \o ran.flashFallbackHandler
        /\ checks' = Remove(checks, i)
        /\ settled' = [id |-> check.id, requested |-> check.model, config |-> check.config,
                       state |-> "fulfilled", value |-> newModel,
                       flashFallbackHandler |-> ran.flashFallbackHandler,
                                   thrown |-> ran.thrown]
        /\ last' = AfterCallback(last, check.id, ran.contentGeneratorConfig)
        /\ kept' = [k \in DOMAIN kept |->
                      AfterCallback(kept[k], check.id, ran.contentGeneratorConfig)]
        /\ UNCHANGED <<env, envFile, issued>>

\* A getEffectiveModel promise rejects: then() was given no rejection callback.
RejectEffectiveModel ==
  \E i \in DOMAIN checks :
    /\ checks' = Remove(checks, i)
    /\ settled' = [id |-> checks[i].id, requested |-> checks[i].model,
                   config |-> checks[i].config, state |-> "rejected",
                   value |-> Undefined, flashFallbackHandler |-> <<>>,
                   thrown |-> Undefined]
    /\ UNCHANGED <<env, envFile, last, issued, handlerCalls, kept>>

------------------------------------------------------------------------------
(* createContentGenerator *)

\* process.env.CLI_VERSION, process.version, process.platform, process.arch
Processes ==
  [CLI_VERSION : {Undefined, Lit("0.1.0")},
   version : {Lit("v20.11.0")}, platform : {Lit("linux")}, arch : {Lit("x64")}]

\* The ContentGeneratorConfig objects passed to createContentGenerator: bare
\* descriptors and descriptors with apiKey and vertexai set.
GeneratorConfigInputs ==
  {[model |-> DEFAULT_DEDALUS_MODEL, authType |-> a] : a \in AuthTypeInputs}
  \cup
  [model : {DEFAULT_DEDALUS_MODEL}, authType : AuthTypeInputs,
   apiKey : {Undefined, EmptyString, Lit("key-A")},
   vertexai : {Bool(TRUE), Bool(FALSE)}]

SessionIds == {Undefined, Lit("session-1")}

\* The Config objects passed as gcConfig, which is only handed on
GcConfigs == {c \in Configs : c.model = Lit("dedalus-2.5-flash")}

HttpOptions(process) ==
  LET version == Or(process.CLI_VERSION, process.version)
  IN  [headers |->
         [UserAgent |->
            Concat(Lit("DedalusWingman/"),
            Concat(ToJSString(version),
            Concat(Lit(" ("),
            Concat(ToJSString(process.platform),
            Concat(Lit("; "),
            Concat(ToJSString(process.arch), Lit(")")))))))]]

\* The code-assist arguments without the session identifier
codeAssistArguments_NoSessionId(httpOptions, config, gcConfig, sessionId) ==
  [httpOptions |-> httpOptions, authType |-> Get(config, "authType"),
   config |-> gcConfig, sessionId |-> Undefined]

\* createCodeAssistContentGenerator(httpOptions, config.authType, gcConfig, sessionId)
codeAssistArguments(httpOptions, config, gcConfig, sessionId) ==
  [httpOptions |-> httpOptions, authType |-> Get(config, "authType"),
   config |-> gcConfig, sessionId |-> sessionId]

\* createContentGenerator without the return in its code-assist branch: it
\* goes on to the tests that follow
createContentGenerator_FallsThrough(config, gcConfig, sessionId, process) ==
  LET httpOptions == HttpOptions(process)
      codeAssist ==
        IF \/ Get(config, "authType") = Get(AuthType, "LOGIN_WITH_DEDALUS")
           \/ Get(config, "authType") = Get(AuthType, "CLOUD_SHELL")
        THEN <<codeAssistArguments(httpOptions, config, gcConfig, sessionId)>>
        ELSE <<>>
  IN  IF \/ Get(config, "authType") = Get(AuthType, "USE_GEMINI")
         \/ Get(config, "authType") = Get(AuthType, "USE_VERTEX_AI")
      THEN [createCodeAssistContentGenerator |-> codeAssist,
            GoogleGenAI |->
              <<[apiKey |-> IF Get(config, "apiKey") = EmptyString
                            THEN Undefined ELSE Get(config, "apiKey"),
                 vertexai |-> Get(config, "vertexai"),
                 httpOptions |-> httpOptions]>>,
            end |-> "return googleGenAI.models"]
      ELSE [createCodeAssistContentGenerator |-> codeAssist,
            GoogleGenAI |-> <<>>,
            end |-> "throw",
            message |-> Concat(Lit("Error creating contentGenerator: Unsupported authType: "),
                               ToJSString(Get(config, "authType")))]

\* createContentGenerator handing config.apiKey to GoogleGenAI as it is
createContentGenerator_KeyUnchanged(config, gcConfig, sessionId, process) ==
  LET httpOptions == HttpOptions(process)
  IN  IF \/ Get(config, "authType") = Get(AuthType, "LOGIN_WITH_DEDALUS")
         \/ Get(config, "authType") = Get(AuthType, "CLOUD_SHELL")
      THEN [createCodeAssistContentGenerator |->
              <<codeAssistArguments(httpOptions, config, gcConfig, sessionId)>>,
            GoogleGenAI |-> <<>>,
            end |-> "return createCodeAssistContentGenerator"]
      ELSE IF \/ Get(config, "authType") = Get(AuthType, "USE_GEMINI")
              \/ Get(config, "authType") = Get(AuthType, "USE_VERTEX_AI")
      THEN [createCodeAssistContentGenerator |-> <<>>,
            GoogleGenAI |->
              <<[apiKey |-> Get(config, "apiKey"),
                 vertexai |-> Get(config, "vertexai"),
                 httpOptions |-> httpOptions]>>,
            end |-> "return googleGenAI.models"]
      ELSE [createCodeAssistContentGenerator |-> <<>>,
            GoogleGenAI |-> <<>>,
            end |-> "throw",
            message |-> Concat(Lit("Error creating contentGenerator: Unsupported authType: "),
                               ToJSString(Get(config, "authType")))]

\* What one call of createContentGenerator does up to its return or throw: the
\* constructor calls it makes, each with its arguments, and how it ends.
\* AuthType has no members USE_GEMINI and USE_VERTEX_AI: both read as undefined.
createContentGenerator(config, gcConfig, sessionId, process) ==
  LET httpOptions == HttpOptions(process)
  IN  IF \/ Get(config, "authType") = Get(AuthType, "LOGIN_WITH_DEDALUS")
         \/ Get(config, "authType") = Get(AuthType, "CLOUD_SHELL")
      THEN [createCodeAssistContentGenerator |->
              <<codeAssistArguments(httpOptions, config, gcConfig, sessionId)>>,
            GoogleGenAI |-> <<>>,
            end |-> "return createCodeAssistContentGenerator"]
      ELSE IF \/ Get(config, "authType") = Get(AuthType, "USE_GEMINI")
              \/ Get(config, "authType") = Get(AuthType, "USE_VERTEX_AI")
      THEN [createCodeAssistContentGenerator |-> <<>>,
            GoogleGenAI |->
              <<[apiKey |-> IF Get(config, "apiKey") = EmptyString
                            THEN Undefined ELSE Get(config, "apiKey"),
                 vertexai |-> Get(config, "vertexai"),
                 httpOptions |-> httpOptions]>>,
            end |-> "return googleGenAI.models"]
      ELSE [createCodeAssistContentGenerator |-> <<>>,
            GoogleGenAI |-> <<>>,
            end |-> "throw",
            message |-> Concat(Lit("Error creating contentGenerator: Unsupported authType: "),
                               ToJSString(Get(config, "authType")))]

\* The call runs to its return or throw.  Returning the code-assist promise
\* leaves the call's own promise pending until that promise settles.
CreateContentGeneratorCall(config, gcConfig, sessionId, process) ==
  LET call == createContentGenerator(config, gcConfig, sessionId, process)
  IN  /\ last' = [op |-> "createContentGenerator",
                  config |-> config,
                  gcConfig |-> gcConfig,
                  sessionId |-> sessionId,
                  process |-> process,
                  createCodeAssistContentGenerator |-> call.createCodeAssistContentGenerator,
                  GoogleGenAI |-> call.GoogleGenAI,
                  promise |->
                    IF call.end = "throw"
                    THEN [state |-> "rejected", error |-> call.message]
                    ELSE IF call.end = "return googleGenAI.models"
                    THEN [state |-> "fulfilled", value |-> "googleGenAI.models"]
                    ELSE [state |-> "pending"]]
      /\ UNCHANGED <<env, envFile, checks, issued, handlerCalls, settled>>

CreateContentGenerator ==
  \E config \in GeneratorConfigInputs, gcConfig \in GcConfigs,
     sessionId \in SessionIds, process \in Processes :
    /\ CreateContentGeneratorCall(config, gcConfig, sessionId, process)
    /\ kept' = <<>>

AwaitingCodeAssist ==
  /\ last.op = "createContentGenerator"
  /\ last.promise.state = "pending"

\* The code-assist promise fulfils: the call resolves to that client.
CodeAssistFulfilled ==
  /\ AwaitingCodeAssist
  /\ last' = [last EXCEPT !.promise = [state |-> "fulfilled", value |-> "codeAssistContentGenerator"]]
  /\ UNCHANGED <<env, envFile, checks, issued, handlerCalls, settled, kept>>

\* The code-assist promise rejects and the call goes on to its last statement
CodeAssistRejected_FallsThrough ==
  /\ AwaitingCodeAssist
  /\ last' = [last EXCEPT !.promise =
                [state |-> "rejected",
                 error |-> Concat(Lit("Error creating contentGenerator: Unsupported authType: "),
                                  ToJSString(Get(last.config, "authType")))]]
  /\ UNCHANGED <<env, envFile, checks, issued, handlerCalls, settled, kept>>

\* The code-assist promise rejects: the call fails with that error.
CodeAssistRejected ==
  /\ AwaitingCodeAssist
  /\ last' = [last EXCEPT !.promise = [state |-> "rejected", error |-> Lit("code assist setup failed")]]
  /\ UNCHANGED <<env, envFile, checks, issued, handlerCalls, settled, kept>>

------------------------------------------------------------------------------
(* The caller at startup: validate the selected mode, build the config for  *)
(* it, create the generator from that config.                               *)

\* The auth mode is selected once per process: the first call of the process
\* validates it.
StartupValidateAuthMethod ==
  /\ last = NoCall
  /\ \E authMethod \in AuthMethodInputs : ValidateAuthMethodCall(authMethod)
  /\ kept' = <<>>

\* The caller builds the config for the mode it has just validated, whatever
\* the validation said, and keeps the validation.
ThenCreateContentGeneratorConfig ==
  /\ last.op = "validateAuthMethod"
  /\ kept = <<>>
  /\ \E config \in Configs :
       /\ issued + ChecksOf(config, last.authMethod) <= MaxChecks
       /\ CreateContentGeneratorConfigCall(config, last.authMethod)
  /\ kept' = <<last>>

\* The caller creates the generator from the config it has just built, with
\* the same Config, and keeps the validation and the config call.
ThenCreateContentGenerator ==
  /\ last.op = "createContentGeneratorConfig"
  /\ Len(kept) = 1
  /\ kept[1].op = "validateAuthMethod"
  /\ \E sessionId \in SessionIds, process \in Processes :
       CreateContentGeneratorCall(last.result, last.config, sessionId, process)
  /\ kept' = Append(kept, last)

------------------------------------------------------------------------------

NoEnvFile == [v \in EnvVars |-> Undefined]

\* No call made yet; any environment, any .env file.
Init ==
  /\ env \in Envs
  /\ envFile \in EnvFiles
  /\ last = NoCall
  /\ checks = <<>>
  /\ issued = 0
  /\ handlerCalls = <<>>
  /\ settled = NoSettlement
  /\ kept = <<>>

\* createContentGeneratorConfig reads the environment and no .env file.
InitConfig == Init /\ envFile = NoEnvFile

\* A repeated call: each variable either unset or set.
InitRepeat == InitConfig /\ \A v \in EnvVars : env[v] \in EnvFileValues(v)

\* createContentGenerator reads none of the three variables.
InitGenerator == Init /\ envFile = NoEnvFile /\ env = [v \in EnvVars |-> Undefined]

NextValidate == ValidateAuthMethod

SpecValidate == Init /\ [][NextValidate]_vars

NextConfig ==
  \/ CreateContentGeneratorConfig
  \/ ResolveEffectiveModel
  \/ RejectEffectiveModel

SpecConfig == InitConfig /\ [][NextConfig]_vars

NextGenerator ==
  \/ CreateContentGenerator
  \/ CodeAssistFulfilled
  \/ CodeAssistRejected

SpecGenerator == InitGenerator /\ [][NextGenerator]_vars

NextStartup ==
  \/ StartupValidateAuthMethod
  \/ ThenCreateContentGeneratorConfig
  \/ ThenCreateContentGenerator
  \/ ResolveEffectiveModel
  \/ RejectEffectiveModel
  \/ CodeAssistFulfilled
  \/ CodeAssistRejected

SpecStartup == Init /\ [][NextStartup]_vars

\* A caller that repeats a createContentGeneratorConfig call
NextRepeat ==
  \/ CreateContentGeneratorConfig
  \/ RepeatCreateContentGeneratorConfig
  \/ ResolveEffectiveModel
  \/ RejectEffectiveModel

SpecRepeat == InitRepeat /\ [][NextRepeat]_vars

\* Overlapping calls: a key is set, and nothing else, when the process starts.
InitConcurrent ==
  /\ InitConfig
  /\ env["DEDALUS_API_KEY"] \in {Lit("key-A"), Lit("key-B")}
  /\ env["DEDALUS_CLOUD_PROJECT"] = Undefined
  /\ env["DEDALUS_CLOUD_LOCATION"] = Undefined

NextConcurrent ==
  \/ NextCreateContentGeneratorConfig
  \/ SetEnvironment
  \/ ResolveEffectiveModel
  \/ RejectEffectiveModel

SpecConcurrent == InitConcurrent /\ [][NextConcurrent]_vars

\* A caller that writes to the config it was given while the check is pending
NextMutate ==
  \/ CreateContentGeneratorConfig
  \/ CallerSetsModel
  \/ ResolveEffectiveModel
  \/ RejectEffectiveModel

SpecMutate == InitRepeat /\ [][NextMutate]_vars

------------------------------------------------------------------------------
(* Claims about validateAuthMethod, checked under SpecValidate *)

Validated(authMethod) ==
  last.op = "validateAuthMethod" /\ last.authMethod = authMethod

\* "set to a non-empty string"
NonEmpty(v) == IsString(v) /\ Len(v[2]) > 0

\* C1: in every environment validateAuthMethod returns null for the
\* login-with-provider mode ('oauth-personal') and for the cloud-shell mode
\* ('cloud-shell').
C1_LoginAndCloudShellAlwaysValid ==
  \A m \in {Lit("oauth-personal"), Lit("cloud-shell")} :
    Validated(m) => last.result = Null

\* C2: for the use-api-key mode validateAuthMethod returns null exactly when
\* DEDALUS_API_KEY is a non-empty string, and otherwise a string that contains
\* the name DEDALUS_API_KEY, whatever the cloud variables hold.
C2_ApiKeyModeValidIffKeySet ==
  Validated(Lit("dedalus-api-key")) =>
    /\ (last.result = Null) <=> NonEmpty(last.env["DEDALUS_API_KEY"])
    /\ last.result # Null =>
         IsString(last.result) /\ Includes(last.result, "DEDALUS_API_KEY")

C2_Witness ==
  /\ Validated(Lit("dedalus-api-key"))
  /\ last.env["DEDALUS_API_KEY"] = EmptyString
  /\ NonEmpty(last.env["DEDALUS_CLOUD_PROJECT"])
  /\ NonEmpty(last.env["DEDALUS_CLOUD_LOCATION"])
  /\ last.result # Null

\* The number of lines of a string
Lines(s) == 1 + Cardinality({i \in DOMAIN s[2] : s[2][i] = "\n"})

\* C3: for the use-cloud-project mode validateAuthMethod returns null exactly
\* when DEDALUS_API_KEY is non-empty or DEDALUS_CLOUD_PROJECT and
\* DEDALUS_CLOUD_LOCATION are both non-empty, and otherwise a string of
\* several lines.
C3_CloudModeValidIffKeyOrProjectAndLocation ==
  Validated(Lit("dedalus-cloud")) =>
    /\ (last.result = Null) <=>
         \/ NonEmpty(last.env["DEDALUS_API_KEY"])
         \/ /\ NonEmpty(last.env["DEDALUS_CLOUD_PROJECT"])
            /\ NonEmpty(last.env["DEDALUS_CLOUD_LOCATION"])
    /\ last.result # Null => IsString(last.result) /\ Lines(last.result) > 1

C3_Witness ==
  /\ Validated(Lit("dedalus-cloud"))
  /\ NonEmpty(last.env["DEDALUS_CLOUD_PROJECT"])
  /\ ~NonEmpty(last.env["DEDALUS_CLOUD_LOCATION"])
  /\ ~NonEmpty(last.env["DEDALUS_API_KEY"])
  /\ last.result # Null

FourModes ==
  {Lit("oauth-personal"), Lit("dedalus-api-key"), Lit("dedalus-cloud"), Lit("cloud-shell")}

\* C4: for every string that is none of the four modes, in every environment,
\* validateAuthMethod returns 'Invalid auth method selected.', never null.
C4_UnknownMethodIsInvalid ==
  (last.op = "validateAuthMethod" /\ last.authMethod \notin FourModes) =>
    last.result = Lit("Invalid auth method selected.")

C4_Witness ==
  /\ Validated(Lit("gemini-api-key"))
  /\ NonEmpty(last.env["DEDALUS_API_KEY"])
  /\ last.result # Null

------------------------------------------------------------------------------
(* Claims about createContentGenerator, checked under SpecGenerator *)

Generated == last.op = "createContentGenerator"

UnsupportedAuthType(promise) ==
  /\ promise.state = "rejected"
  /\ Includes(promise.error, "Error creating contentGenerator: Unsupported authType: ")

\* C5: when config.authType is use-api-key ('dedalus-api-key') or
\* use-cloud-project ('dedalus-cloud'), createContentGenerator constructs the
\* vendor SDK client with the config's apiKey and transport flag, resolves to
\* that client's models interface, and does not fail with the
\* unsupported-auth-type error.
C5_DirectModesBuildVendorClient ==
  (Generated /\ Get(last.config, "authType") \in {Lit("dedalus-api-key"), Lit("dedalus-cloud")}) =>
    /\ Len(last.GoogleGenAI) = 1
    /\ last.GoogleGenAI[1].apiKey \in {Get(last.config, "apiKey"), Undefined}
    /\ last.GoogleGenAI[1].vertexai = Get(last.config, "vertexai")
    /\ last.promise = [state |-> "fulfilled", value |-> "googleGenAI.models"]
    /\ ~UnsupportedAuthType(last.promise)

\* C6: for every config whose authType is none of the four modes (an unknown
\* string, or undefined), createContentGenerator fails with an error whose
\* message names that authType value and constructs neither client.
C6_UnknownAuthTypeFails ==
  (Generated /\ Get(last.config, "authType") \notin FourModes) =>
    /\ UnsupportedAuthType(last.promise)
    /\ \A i \in DOMAIN ToJSString(Get(last.config, "authType"))[2] :
         Includes(last.promise.error, ToJSString(Get(last.config, "authType"))[2][i])
    /\ last.createCodeAssistContentGenerator = <<>>
    /\ last.GoogleGenAI = <<>>

\* C7: when config.authType is login-with-provider ('oauth-personal') or
\* cloud-shell ('cloud-shell'), createContentGenerator calls the code-assist
\* constructor exactly once, with the header options, that authType, the app
\* configuration and the caller's sessionId; what it returns is that
\* constructor's result; the vendor SDK client is never constructed.
C7_LoginModesDelegateToCodeAssist ==
  (Generated /\ Get(last.config, "authType") \in {Lit("oauth-personal"), Lit("cloud-shell")}) =>
    /\ Len(last.createCodeAssistContentGenerator) = 1
    /\ last.createCodeAssistContentGenerator[1] =
         [httpOptions |-> HttpOptions(last.process),
          authType |-> last.config.authType,
          config |-> last.gcConfig,
          sessionId |-> last.sessionId]
    /\ last.GoogleGenAI = <<>>
    /\ last.promise.state = "fulfilled" => last.promise.value = "codeAssistContentGenerator"
    /\ ~UnsupportedAuthType(last.promise)

C7_Witness ==
  /\ Generated
  /\ last.config.authType = Lit("oauth-personal")
  /\ last.sessionId = Lit("session-1")
  /\ Len(last.createCodeAssistContentGenerator) = 1
  /\ last.promise.state = "fulfilled"

------------------------------------------------------------------------------
(* Claims about createContentGeneratorConfig, checked under SpecConfig *)

Configured == last.op = "createContentGeneratorConfig"

\* C8: for every auth mode and environment the returned config's model is
\* config.getModel() when that is a non-empty string and 'dedalus-2.5-pro'
\* when getModel() is unset or empty.
C8_ModelIsConfigModelOrDefault ==
  Configured =>
    last.result.model =
      IF NonEmpty(last.config.model) THEN last.config.model ELSE Lit("dedalus-2.5-pro")

C8_Witness ==
  /\ Configured
  /\ last.config.model = EmptyString
  /\ last.authType = Lit("dedalus-cloud")
  /\ last.result.model = Lit("dedalus-2.5-pro")

\* C9: for the login-with-provider and cloud-shell modes the returned
\* descriptor holds only model and authType: apiKey and vertexai are unset
\* whatever the environment holds, and no effective-model check is issued.
C9_LoginModesGetBareDescriptor ==
  (Configured /\ last.authType \in {Lit("oauth-personal"), Lit("cloud-shell")}) =>
    /\ DOMAIN last.result = {"model", "authType"}
    /\ last.result.authType = last.authType
    /\ Get(last.result, "apiKey") = Undefined
    /\ Get(last.result, "vertexai") = Undefined
    /\ last.getEffectiveModel = <<>>
    /\ \A i \in DOMAIN checks : checks[i].contentGeneratorConfig.authType # last.authType

C9_Witness ==
  /\ Configured
  /\ last.authType = Lit("oauth-personal")
  /\ NonEmpty(last.env["DEDALUS_API_KEY"])
  /\ DOMAIN last.result = {"model", "authType"}

\* C10: for the use-api-key mode with DEDALUS_API_KEY non-empty the returned
\* config has apiKey equal to that variable's value and vertexai false,
\* whatever the cloud project and location variables hold.
C10_ApiKeyModeSetsKeyAndNoVertex ==
  (Configured /\ last.authType = Lit("dedalus-api-key") /\ NonEmpty(last.env["DEDALUS_API_KEY"])) =>
    /\ Get(last.result, "apiKey") = last.env["DEDALUS_API_KEY"]
    /\ Get(last.result, "vertexai") = Bool(FALSE)

C10_Witness ==
  /\ Configured
  /\ last.authType = Lit("dedalus-api-key")
  /\ last.env["DEDALUS_API_KEY"] = Lit("key-B")
  /\ NonEmpty(last.env["DEDALUS_CLOUD_PROJECT"])
  /\ NonEmpty(last.env["DEDALUS_CLOUD_LOCATION"])
  /\ Get(last.result, "apiKey") = Lit("key-B")

\* "non-empty or undefined": what process.env.X || undefined leaves of X
KeyOrUndefined(v) == IF NonEmpty(v) THEN v ELSE Undefined

CloudConfigPresent(e) ==
  \/ NonEmpty(e["DEDALUS_API_KEY"])
  \/ NonEmpty(e["DEDALUS_CLOUD_PROJECT"]) /\ NonEmpty(e["DEDALUS_CLOUD_LOCATION"])

\* C11: for the use-cloud-project mode, if DEDALUS_API_KEY is non-empty or
\* DEDALUS_CLOUD_PROJECT and DEDALUS_CLOUD_LOCATION are both non-empty, the
\* returned config has vertexai true and apiKey equal to the API key, which
\* is undefined when only project and location are set.
C11_CloudModeSetsVertexAndKey ==
  (Configured /\ last.authType = Lit("dedalus-cloud") /\ CloudConfigPresent(last.env)) =>
    /\ "vertexai" \in DOMAIN last.result /\ last.result.vertexai = Bool(TRUE)
    /\ "apiKey" \in DOMAIN last.result
    /\ last.result.apiKey = KeyOrUndefined(last.env["DEDALUS_API_KEY"])

C11_Witness ==
  /\ Configured
  /\ last.authType = Lit("dedalus-cloud")
  /\ last.env["DEDALUS_API_KEY"] = Undefined
  /\ NonEmpty(last.env["DEDALUS_CLOUD_PROJECT"])
  /\ NonEmpty(last.env["DEDALUS_CLOUD_LOCATION"])
  /\ last.result.vertexai = Bool(TRUE)
  /\ last.result.apiKey = Undefined

\* The mode's condition does not hold
ConditionFails(authType, e) ==
  \/ authType = Lit("dedalus-api-key") /\ ~NonEmpty(e["DEDALUS_API_KEY"])
  \/ authType = Lit("dedalus-cloud") /\ ~CloudConfigPresent(e)
  \/ authType \notin FourModes

\* C12: createContentGeneratorConfig raises no error: when the mode's
\* condition does not hold (use-api-key without a key, use-cloud-project with
\* neither a key nor project and location, an undefined or unknown authType)
\* it returns the bare descriptor {model, authType}, apiKey and vertexai unset.
C12_BareDescriptorWhenConditionFails ==
  (Configured /\ ConditionFails(last.authType, last.env)) =>
    /\ DOMAIN last.result = {"model", "authType"}
    /\ last.result.authType = last.authType
    /\ IsString(last.result.model)
    /\ last.getEffectiveModel = <<>>

C12_Witness ==
  /\ Configured
  /\ last.authType = Lit("dedalus-cloud")
  /\ NonEmpty(last.env["DEDALUS_CLOUD_PROJECT"])
  /\ last.env["DEDALUS_CLOUD_LOCATION"] = EmptyString
  /\ last.env["DEDALUS_API_KEY"] = EmptyString
  /\ DOMAIN last.result = {"model", "authType"}

------------------------------------------------------------------------------
(* Claims about a validation followed by the config and the generator,    *)
(* checked under SpecStartup, and about a repeated call, under SpecRepeat *)

\* The config was built for the mode validated just before, in the
\* environment the validation read
BuiltAfterValidation ==
  /\ Configured
  /\ Len(kept) = 1
  /\ kept[1].op = "validateAuthMethod"

\* C13: with mode use-cloud-project, DEDALUS_CLOUD_PROJECT and
\* DEDALUS_CLOUD_LOCATION set, DEDALUS_API_KEY unset and no app-config model,
\* validateAuthMethod returns null and createContentGeneratorConfig returns
\* exactly {model: 'dedalus-2.5-pro', apiKey: undefined, vertexai: true,
\* authType: 'dedalus-cloud'}.
C13_CloudProjectScenario ==
  (/\ BuiltAfterValidation
   /\ last.authType = Lit("dedalus-cloud")
   /\ NonEmpty(last.env["DEDALUS_CLOUD_PROJECT"])
   /\ NonEmpty(last.env["DEDALUS_CLOUD_LOCATION"])
   /\ last.env["DEDALUS_API_KEY"] = Undefined
   /\ ~NonEmpty(last.config.model)) =>
    /\ kept[1].env = last.env
    /\ kept[1].result = Null
    /\ last.result = [model |-> Lit("dedalus-2.5-pro"), apiKey |-> Undefined,
                      vertexai |-> Bool(TRUE), authType |-> Lit("dedalus-cloud")]

C13_Witness ==
  /\ BuiltAfterValidation
  /\ last.authType = Lit("dedalus-cloud")
  /\ last.env = [DEDALUS_API_KEY |-> Undefined, DEDALUS_CLOUD_PROJECT |-> Lit("proj-1"),
                 DEDALUS_CLOUD_LOCATION |-> Lit("us-east1")]
  /\ last.config.model = Undefined
  /\ kept[1].result = Null
  /\ last.result.vertexai = Bool(TRUE)

\* The call repeats, with the same arguments, the call whose result is kept
Repeated ==
  /\ Configured
  /\ Len(kept) = 1
  /\ kept[1].op = "createContentGeneratorConfig"

ConfigFields == {"model", "apiKey", "vertexai", "authType"}

\* C14: two calls of createContentGeneratorConfig with the same environment,
\* app-config model and authType return configs equal field by field,
\* whatever the effective-model check of the first call does and when.
C14_RepeatedCallGivesEqualConfig ==
  Repeated =>
    /\ kept[1].env = last.env /\ kept[1].config = last.config
    /\ kept[1].authType = last.authType
    /\ DOMAIN kept[1].result = DOMAIN last.result
    /\ \A f \in ConfigFields : Get(kept[1].result, f) = Get(last.result, f)

C14_Witness ==
  /\ Repeated
  /\ last.authType = Lit("dedalus-api-key")
  /\ settled.state = "fulfilled"
  /\ settled.id \in kept[1].checkIds
  /\ settled.value # settled.requested
  /\ last.checkIds # {}

\* C15: in the use-api-key path with an API key, once the effective-model
\* check resolves, the fallback handler is invoked, with (requestedModel,
\* actualModel), exactly when the provider's model differs from the requested
\* one; it is never invoked when the provider reports the same model.
C15_HandlerInvokedIffModelDiffers ==
  /\ (settled.state = "fulfilled" /\ settled.config.flashFallbackHandler # Undefined) =>
       settled.flashFallbackHandler =
         IF settled.value # settled.requested
         THEN << <<settled.requested, settled.value>> >>
         ELSE <<>>
  /\ \A i \in DOMAIN handlerCalls : handlerCalls[i][1] # handlerCalls[i][2]

C15_Witness ==
  /\ settled.state = "fulfilled"
  /\ settled.config.flashFallbackHandler # Undefined
  /\ settled.requested = Lit("dedalus-2.5-pro")
  /\ settled.value = Lit("dedalus-2.5-flash")
  /\ handlerCalls = << <<Lit("dedalus-2.5-pro"), Lit("dedalus-2.5-flash")>> >>

PendingIds == {checks[j].id : j \in DOMAIN checks}

\* C16: createContentGeneratorConfig returns its config without waiting for
\* the effective-model check: when a call returns, the checks it issued are
\* pending, and a check settles, and the handler is invoked, only in a later
\* step, for a check that was pending after its call had returned.
C16_ConfigReturnedBeforeCheckSettles ==
  [][/\ (last' # last /\ last'.op = "createContentGeneratorConfig") =>
          \A id \in last'.checkIds : id \in {checks'[j].id : j \in DOMAIN checks'}
     /\ settled' # settled =>
          settled'.id \in PendingIds /\ settled'.id <= issued /\ issued' = issued
     /\ handlerCalls' # handlerCalls =>
          settled' # settled /\ settled'.id \in PendingIds]_vars

C16_Witness ==
  /\ Configured
  /\ last.checkIds # {}
  /\ settled.state = "fulfilled"
  /\ settled.id \in last.checkIds
  /\ handlerCalls # <<>>

------------------------------------------------------------------------------
(* Further claims about validateAuthMethod, checked under SpecValidate *)

ValidationFails(authMethod, e) ==
  \/ authMethod = Lit("dedalus-api-key") /\ ~NonEmpty(e["DEDALUS_API_KEY"])
  \/ authMethod = Lit("dedalus-cloud") /\ ~CloudConfigPresent(e)
  \/ authMethod \notin FourModes

\* C17: validateAuthMethod never throws: for every input and environment it
\* returns null or a non-null error string, and every failure is reported by
\* the returned string.
C17_ValidateReturnsNullOrString ==
  last.op = "validateAuthMethod" =>
    /\ last.result = Null \/ (IsString(last.result) /\ NonEmpty(last.result))
    /\ ValidationFails(last.authMethod, last.env) => IsString(last.result)

C17_Witness ==
  /\ Validated(EmptyString)
  /\ \A v \in EnvVars : last.env[v] = Undefined
  /\ IsString(last.result)

\* C18: in every call of validateAuthMethod, for every mode, the environment
\* load is complete before a variable is read: the variables the call reads
\* include those of the local env file, and the result reflects them.
C18_EnvironmentLoadedBeforeRead ==
  last.op = "validateAuthMethod" =>
    /\ \A v \in EnvVars : envFile[v] # Undefined => last.env[v] # Undefined
    /\ last.env = env
    /\ (/\ last.authMethod = Lit("dedalus-api-key")
        /\ NonEmpty(envFile["DEDALUS_API_KEY"])
        /\ last.env["DEDALUS_API_KEY"] # EmptyString) => last.result = Null

C18_Witness ==
  /\ Validated(Lit("dedalus-api-key"))
  /\ envFile["DEDALUS_API_KEY"] = Lit("key-A")
  /\ envFile["DEDALUS_CLOUD_PROJECT"] = Undefined
  /\ last.env["DEDALUS_API_KEY"] = Lit("key-A")
  /\ last.env["DEDALUS_CLOUD_PROJECT"] = Undefined
  /\ last.result = Null

------------------------------------------------------------------------------
(* Claims relating the validator, the builder and the factory, under SpecStartup *)

\* The generator was created from the config built for the validated mode
GeneratedAfterValidation ==
  /\ Generated
  /\ Len(kept) = 2
  /\ kept[1].op = "validateAuthMethod"
  /\ kept[2].op = "createContentGeneratorConfig"

\* C19: for every mode and environment for which validateAuthMethod returns
\* null, createContentGenerator on the config createContentGeneratorConfig
\* builds for them does not fail with the unsupported-auth-type error: it
\* reaches one of the two client constructors.
C19_ValidatedModeReachesAClient ==
  (GeneratedAfterValidation /\ kept[1].result = Null) =>
    /\ ~UnsupportedAuthType(last.promise)
    /\ Len(last.createCodeAssistContentGenerator) + Len(last.GoogleGenAI) = 1

\* C20: in the same environment, for use-api-key validateAuthMethod returns
\* null exactly when createContentGeneratorConfig sets apiKey with vertexai
\* false, and for use-cloud-project exactly when it sets vertexai true; a
\* config with vertexai set exists only where the validator accepts.
C20_ValidatorAndBuilderAgree ==
  BuiltAfterValidation =>
    /\ kept[1].env = last.env
    /\ last.authType = Lit("dedalus-api-key") =>
         (kept[1].result = Null <=>
            /\ NonEmpty(Get(last.result, "apiKey"))
            /\ Get(last.result, "vertexai") = Bool(FALSE))
    /\ last.authType = Lit("dedalus-cloud") =>
         (kept[1].result = Null <=> Get(last.result, "vertexai") = Bool(TRUE))
    /\ "vertexai" \in DOMAIN last.result => kept[1].result = Null

C20_Witness ==
  /\ BuiltAfterValidation
  /\ last.authType = Lit("dedalus-cloud")
  /\ last.env["DEDALUS_API_KEY"] = EmptyString
  /\ NonEmpty(last.env["DEDALUS_CLOUD_PROJECT"])
  /\ last.env["DEDALUS_CLOUD_LOCATION"] = EmptyString
  /\ kept[1].result # Null
  /\ DOMAIN last.result = {"model", "authType"}

------------------------------------------------------------------------------
(* Further claims about createContentGenerator, checked under SpecGenerator *)

\* The terminal outcome of a call, from the constructor calls it made
Outcome(call) ==
  IF Len(call.createCodeAssistContentGenerator) > 0 /\ Len(call.GoogleGenAI) > 0
  THEN "both clients"
  ELSE IF Len(call.createCodeAssistContentGenerator) > 0 THEN "code-assist client"
  ELSE IF Len(call.GoogleGenAI) > 0 THEN "vendor client"
  ELSE "error"

\* C21: every call of createContentGenerator ends in exactly one of the three
\* outcomes code-assist client, vendor SDK client, unsupported-auth-type
\* error; the outcome is the same for all inputs with the same config.authType;
\* no call constructs both clients or constructs a client and throws that error.
C21_ExactlyOneOutcomeByAuthType ==
  Generated =>
    /\ \/ /\ Len(last.createCodeAssistContentGenerator) = 1
          /\ last.GoogleGenAI = <<>>
          /\ ~UnsupportedAuthType(last.promise)
       \/ /\ last.createCodeAssistContentGenerator = <<>>
          /\ Len(last.GoogleGenAI) = 1
          /\ last.promise = [state |-> "fulfilled", value |-> "googleGenAI.models"]
       \/ /\ last.createCodeAssistContentGenerator = <<>>
          /\ last.GoogleGenAI = <<>>
          /\ UnsupportedAuthType(last.promise)
    /\ \A config \in GeneratorConfigInputs, gcConfig \in GcConfigs,
          sessionId \in SessionIds, process \in Processes :
         Get(config, "authType") = Get(last.config, "authType") =>
           Outcome(createContentGenerator(config, gcConfig, sessionId, process)) = Outcome(last)

C21_Witness ==
  /\ Generated
  /\ Get(last.config, "authType") = Lit("cloud-shell")
  /\ Get(last.config, "apiKey") = Lit("key-A")
  /\ Outcome(last) = "code-assist client"
  /\ last.promise.state = "rejected"

------------------------------------------------------------------------------
(* Claims about the effective-model check and its callback *)

\* C22: the first argument passed to the fallback handler is the model that
\* was requested when createContentGeneratorConfig was called, the one passed
\* to getEffectiveModel, and the handler is invoked exactly when the reported
\* model differs from that model, also when the caller changes the returned
\* config's model between the return and the resolution.  Under SpecMutate.
C22_HandlerGetsRequestedModel ==
  settled.state = "fulfilled" =>
    /\ \A i \in DOMAIN settled.flashFallbackHandler :
         settled.flashFallbackHandler[i][1] = settled.requested
    /\ settled.config.flashFallbackHandler # Undefined =>
         (settled.flashFallbackHandler # <<>> <=> settled.value # settled.requested)

\* C23: a createContentGeneratorConfig call issues an effective-model check
\* exactly when authType is use-api-key and DEDALUS_API_KEY is non-empty, and
\* then exactly one; every pending check comes from such a call; the handler
\* is invoked only by the resolution of a check, at most once per check.
C23_OneCheckForApiKeyModeOnly ==
  /\ Configured =>
       /\ Len(last.getEffectiveModel) =
            IF last.authType = Lit("dedalus-api-key") /\ NonEmpty(last.env["DEDALUS_API_KEY"])
            THEN 1 ELSE 0
       /\ Cardinality(last.checkIds) = Len(last.getEffectiveModel)
  /\ \A i \in DOMAIN checks :
       /\ checks[i].contentGeneratorConfig.authType = Lit("dedalus-api-key")
       /\ NonEmpty(checks[i].apiKey)
       /\ checks[i].id <= issued
  /\ settled.state # "none" =>
       Len(settled.flashFallbackHandler) <= 1 /\ settled.id <= issued
  /\ Len(handlerCalls) + Len(checks) <= issued

C23_Witness ==
  /\ Configured
  /\ last.authType = Lit("dedalus-cloud")
  /\ NonEmpty(last.env["DEDALUS_API_KEY"])
  /\ last.checkIds = {}
  /\ issued = 1
  /\ checks = <<>>
  /\ Len(handlerCalls) = 1

\* C24: when the app configuration has no fallback handler and the provider
\* reports a model different from the requested one, the resolution of the
\* check invokes nothing and raises no error.
C24_NoHandlerNoCallNoError ==
  (/\ settled.state = "fulfilled"
   /\ settled.config.flashFallbackHandler = Undefined
   /\ settled.value # settled.requested) =>
    /\ settled.flashFallbackHandler = <<>>
    /\ settled.thrown = Undefined

C24_Witness ==
  /\ settled.state = "fulfilled"
  /\ settled.config.flashFallbackHandler = Undefined
  /\ settled.requested = Lit("dedalus-2.5-flash")
  /\ settled.value = Lit("dedalus-2.5-pro")
  /\ settled.thrown = Undefined
  /\ handlerCalls = <<>>

\* C25: the settlement of the effective-model check never changes the config
\* already returned: whether the check reports the requested model, reports
\* another one, or fails, the config's model stays the requested model and
\* apiKey, vertexai and authType stay as returned; a check that fails does
\* not invoke the handler.
C25_SettlementLeavesConfigUnchanged ==
  [][Len(checks') < Len(checks) =>
       /\ last' = last
       /\ (last.op = "createContentGeneratorConfig" /\ settled'.id \in last.checkIds) =>
            /\ last'.result.model = settled'.requested
            /\ last'.result.apiKey = last.env["DEDALUS_API_KEY"]
            /\ last'.result.vertexai = Bool(FALSE)
            /\ last'.result.authType = last.authType
       /\ settled'.state = "rejected" =>
            /\ settled'.flashFallbackHandler = <<>>
            /\ handlerCalls' = handlerCalls]_vars

C25_Witness ==
  /\ Configured
  /\ settled.state = "rejected"
  /\ settled.id \in last.checkIds
  /\ settled.config.flashFallbackHandler # Undefined
  /\ last.result.model = settled.requested
  /\ handlerCalls = <<>>

------------------------------------------------------------------------------
(* Claims about overlapping createContentGeneratorConfig calls, under SpecConcurrent *)

\* The createContentGeneratorConfig calls whose results the caller holds
HeldCalls ==
  {r \in {last} \cup {kept[k] : k \in DOMAIN kept} : r.op = "createContentGeneratorConfig"}

\* C26: calls of createContentGeneratorConfig share no mutable state: with the
\* checks of two calls pending at once and resolving in either order, each
\* handler invocation carries the requested model of the call that issued the
\* check, and each returned config holds the environment's values at the time
\* of its own call, whatever the other call did and however the environment
\* changed later.
C26_CallsShareNoState ==
  /\ \A r \in HeldCalls :
       /\ r.result.model =
            IF NonEmpty(r.config.model) THEN r.config.model ELSE Lit("dedalus-2.5-pro")
       /\ r.result.authType = r.authType
       /\ Get(r.result, "apiKey") = KeyOrUndefined(r.env["DEDALUS_API_KEY"])
       /\ \A i \in DOMAIN checks :
            checks[i].id \in r.checkIds =>
              /\ checks[i].contentGeneratorConfig = r.result
              /\ checks[i].model = r.result.model
              /\ checks[i].apiKey = r.env["DEDALUS_API_KEY"]
       /\ (settled.state = "fulfilled" /\ settled.id \in r.checkIds) =>
            /\ settled.requested = r.result.model
            /\ settled.flashFallbackHandler =
                 IF settled.value # r.result.model
                 THEN << <<r.result.model, settled.value>> >>
                 ELSE <<>>
  /\ \A r1 \in HeldCalls, r2 \in HeldCalls :
       r1 # r2 => r1.checkIds \cap r2.checkIds = {}

C26_Witness ==
  /\ Configured
  /\ Len(kept) = 1
  /\ kept[1].op = "createContentGeneratorConfig"
  /\ kept[1].result.model = Lit("dedalus-2.5-flash")
  /\ last.result.model = Lit("dedalus-2.5-pro")
  /\ kept[1].result.apiKey = Lit("key-A")
  /\ last.result.apiKey = Lit("key-B")
  /\ env["DEDALUS_API_KEY"] = Lit("key-A")
  /\ kept[1].checkIds = {1}
  /\ last.checkIds = {2}
  /\ checks = <<>>
  /\ settled.id = 1
  /\ handlerCalls = << <<Lit("dedalus-2.5-pro"), Lit("dedalus-2.5-flash")>>,
                       <<Lit("dedalus-2.5-flash"), Lit("dedalus-2.5-pro")>> >>

------------------------------------------------------------------------------
(* Claims about the clients createContentGenerator constructs, under SpecGenerator *)

\* C27: the vendor SDK client is never constructed with an empty-string API
\* key: on the vendor path an empty config.apiKey is passed as undefined, a
\* non-empty key is passed unchanged, and the transport flag passed is
\* config.vertexai.
C27_VendorClientNeverGetsEmptyKey ==
  (Generated /\ last.GoogleGenAI # <<>>) =>
    /\ Len(last.GoogleGenAI) = 1
    /\ last.GoogleGenAI[1].apiKey # EmptyString
    /\ Get(last.config, "apiKey") = EmptyString => last.GoogleGenAI[1].apiKey = Undefined
    /\ NonEmpty(Get(last.config, "apiKey")) =>
         last.GoogleGenAI[1].apiKey = Get(last.config, "apiKey")
    /\ last.GoogleGenAI[1].vertexai = Get(last.config, "vertexai")

C27_Witness ==
  /\ Generated
  /\ Get(last.config, "apiKey") = EmptyString
  /\ Get(last.config, "vertexai") = Bool(TRUE)
  /\ Len(last.GoogleGenAI) = 1
  /\ last.GoogleGenAI[1].apiKey = Undefined
  /\ last.GoogleGenAI[1].vertexai = Bool(TRUE)

\* C28: on the code-assist path createContentGenerator completes only after
\* the code-assist constructor's initialization completes: the call's promise
\* is pending when the call returns, it fulfils with the client that
\* constructor produced, and when the initialization fails it rejects with
\* that failure; the vendor client is not constructed and the
\* unsupported-auth-type error is not raised.
C28_CodeAssistPathAwaitsConstructor ==
  [][(/\ last' # last
      /\ last'.op = "createContentGenerator"
      /\ Len(last'.createCodeAssistContentGenerator) = 1) =>
       /\ last'.GoogleGenAI = <<>>
       /\ IF AwaitingCodeAssist /\ last'.promise.state # "pending"
          THEN /\ [last' EXCEPT !.promise = last.promise] = last
               /\ \/ last'.promise = [state |-> "fulfilled", value |-> "codeAssistContentGenerator"]
                  \/ last'.promise = [state |-> "rejected", error |-> Lit("code assist setup failed")]
          ELSE last'.promise.state = "pending"]_vars

C28_Witness ==
  /\ Generated
  /\ Get(last.config, "authType") = Lit("oauth-personal")
  /\ Len(last.createCodeAssistContentGenerator) = 1
  /\ last.GoogleGenAI = <<>>
  /\ last.promise = [state |-> "rejected", error |-> Lit("code assist setup failed")]

------------------------------------------------------------------------------
(* Claims about what results and errors reveal, under SpecStartup *)

\* Which variables of an environment are present (set to a non-empty string)
Presence(e) == [v \in EnvVars |-> NonEmpty(e[v])]

\* The string s holds the value of DEDALUS_API_KEY in e
HoldsKey(s, e) ==
  /\ IsString(s)
  /\ NonEmpty(e["DEDALUS_API_KEY"])
  /\ \E i \in DOMAIN s[2], j \in DOMAIN e["DEDALUS_API_KEY"][2] :
       s[2][i] = e["DEDALUS_API_KEY"][2][j]

\* C29: the result of validateAuthMethod and the error thrown by
\* createContentGenerator depend on DEDALUS_API_KEY, DEDALUS_CLOUD_PROJECT
\* and DEDALUS_CLOUD_LOCATION only through which of them are present: an
\* environment with the same variables present and other values gives the
\* same validator result and the same thrown message, and no error string or
\* thrown message contains the value of DEDALUS_API_KEY.
C29_ResultsDependOnPresenceOnly ==
  /\ last.op = "validateAuthMethod" =>
       /\ ~HoldsKey(last.result, last.env)
       /\ \A e \in Envs :
            Presence(e) = Presence(last.env) =>
              validateAuthMethod(last.authMethod, e) = last.result
  /\ (GeneratedAfterValidation /\ last.promise.state = "rejected") =>
       /\ ~HoldsKey(last.promise.error, kept[2].env)
       /\ \A e \in Envs :
            Presence(e) = Presence(kept[2].env) =>
              LET built == createContentGeneratorConfig(kept[2].config, kept[2].authType, e)
                  call == createContentGenerator(built.returned, last.gcConfig,
                                                 last.sessionId, last.process)
              IN  UnsupportedAuthType(last.promise) =>
                    call.end = "throw" /\ call.message = last.promise.error

C29_Witness ==
  /\ GeneratedAfterValidation
  /\ kept[1].authMethod = Lit("dedalus-api-key")
  /\ kept[1].result = Null
  /\ kept[2].env["DEDALUS_API_KEY"] = Lit("key-B")
  /\ Get(last.config, "apiKey") = Lit("key-B")
  /\ UnsupportedAuthType(last.promise)
  /\ ~HoldsKey(last.promise.error, kept[2].env)

====
